---- MODULE Spec2Model ----
(***************************************************************************)
(* hydro.delta: slowly-changing-dimension merges (scd, bootstrap_scd2) and *)
(* deduplicate, modelled against a Delta table held as a bag of rows.      *)
(* A row is a record [id, ts, end, val]: id is the key column, ts the      *)
(* effective_ts column, end the end_ts column, val a payload column.       *)
(***************************************************************************)
EXTENDS Integers, Sequences, FiniteSets, Bags, TLC

VARIABLES
    table,      \* the target Delta table: a bag of rows
    exists,     \* whether the target table has been created
    version,    \* the table's version: commits made to it
    staging,    \* temp_path -> [exists, rows]: the staging locations
    pc,         \* position of the call in progress ("idle" between calls)
    op,         \* arguments of the call in progress / of the last call
    result,     \* outcome of the last call: "none", "ok" or the exception raised
    log,        \* TableStore calls issued by the last call, in order
    pre,        \* the table as it was when the last call started
    once,       \* the table after the first application of op's batch
    runs,       \* how many times in a row op has been called
    snap,       \* the snapshot read by the merge in progress
    attempts,   \* merge attempts made by the last scd call
    conflicts,  \* conflicts the TableStore reported to the last scd call
    contended,  \* the table as the conflicting writer left it
    returned,   \* the DataFrame or dict the last call returned
    appended,   \* rows other writers appended during the last deduplicate
    nops        \* calls made so far

vars == <<table, exists, version, staging, pc, op, result, log, pre, once,
          runs, snap, attempts, conflicts, contended, returned, appended,
          nops>>

----------------------------------------------------------------------------
(* Bounds *)
MaxId == 2        \* key values 1..MaxId (plus NULL)
MaxTs == 3        \* timestamps 1..MaxTs
MaxVal == 2       \* payload values 1..MaxVal
MaxBatch == 2     \* rows in an incoming batch
MaxRows == 2      \* rows in an arbitrary initial table
MaxMerges == 1    \* type-2 merges that follow a bootstrap
MaxTmp == 1       \* staging locations 1..MaxTmp
MaxDedups == 2    \* calls of deduplicate in a row
MaxAppends == 1   \* rows another writer appends during a deduplicate
MaxFiles == 3     \* files in a snapshot
MaxRecs == 2      \* records a file's statistics report

Null == 0         \* SQL NULL / Python None in a column

Ids == 1..MaxId
KeyVals == {Null} \cup Ids
Tss == 1..MaxTs
Ends == {Null} \cup Tss
Vals == 1..MaxVal
TempPaths == 1..MaxTmp

Row(i, t, e, v) == [id |-> i, ts |-> t, end |-> e, val |-> v]

\* Rows of an incoming batch: end_ts is absent (NULL) until the engine sets it.
SrcRows == {Row(i, t, Null, v) : i \in KeyVals, t \in Tss, v \in Vals}

----------------------------------------------------------------------------
(* Bags of rows (DataFrames and tables are unordered multisets) *)

RECURSIVE SumCounts(_, _)
SumCounts(b, S) ==
    IF S = {} THEN 0
    ELSE LET x == CHOOSE y \in S : TRUE IN b[x] + SumCounts(b, S \ {x})

Card(b) == SumCounts(b, DOMAIN b)

SeqToBag(s) ==
    [r \in {s[i] : i \in DOMAIN s} |-> Cardinality({i \in DOMAIN s : s[i] = r})]

\* All bags of at most n elements of S.
BagsUpTo(S, n) == {SeqToBag(s) : s \in UNION {[1..k -> S] : k \in 0..n}}

\* The rows of b that satisfy P, with their multiplicities.
BagFilter(b, P(_)) == [r \in {x \in DOMAIN b : P(x)} |-> b[r]]

\* The bag of F(r) for the rows r of b.
BagImage(b, F(_)) ==
    [y \in {F(x) : x \in DOMAIN b} |->
        SumCounts(b, {x \in DOMAIN b : F(x) = y})]

----------------------------------------------------------------------------
(* Spark SQL comparison of key columns *)

\* source.k = target.k for every k in cols: NULL equals nothing.
SqlEq(cols, s, r) ==
    \A c \in cols : s[c] # Null /\ r[c] # Null /\ s[c] = r[c]

\* Window.partitionBy(cols): NULLs fall into one partition.
SamePart(cols, s, r) == \A c \in cols : s[c] = r[c]

\* Every ordering of bag b that is ascending in rk within a partition
\* (rows that tie on rk come in any order, as Spark leaves it open).
RECURSIVE WindowOrders(_, _)
WindowOrders(b, rk) ==
    IF DOMAIN b = {} THEN {<< >>}
    ELSE LET firsts == {r \in DOMAIN b : \A x \in DOMAIN b : rk[r] <= rk[x]}
             less(r) == IF b[r] = 1
                        THEN [x \in DOMAIN b \ {r} |-> b[x]]
                        ELSE [b EXCEPT ![r] = @ - 1]
         IN UNION {{<<r>> \o rest : rest \in WindowOrders(less(r), rk)}
                     : r \in firsts}

\* F.lead(effective_ts).over(window) at position i of ordering s.
Lead(cols, s, i) ==
    IF i < Len(s) /\ SamePart(cols, s[i], s[i + 1]) THEN s[i + 1].ts ELSE Null

\* F.row_number().over(window) == 1: the first row of each partition
\* (s keeps the rows of a partition together).
RowNumberOne(cols, s) ==
    LET firsts == {i \in DOMAIN s : i = 1 \/ ~SamePart(cols, s[i - 1], s[i])}
    IN [r \in {s[i] : i \in firsts} |-> Cardinality({i \in firsts : s[i] = r})]

----------------------------------------------------------------------------
(* DeltaTable.merge(source, condition) *)

\* Source rows (with multiplicity) whose merge condition holds against r.
Matches(src, cols, r) ==
    SumCounts(src, {s \in DOMAIN src : SqlEq(cols, s, r)})

\* The payload written over the table instead of merged into it.
MergeOverwrites(t, src, cols) == [ok |-> TRUE, rows |-> src]

\* A merge that appends the source rows whether or not they match.
MergeAppends(t, src, cols) == [ok |-> TRUE, rows |-> t (+) src]

\* .whenMatchedUpdateAll().whenNotMatchedInsertAll().execute(): a target row
\* matched by a source row takes all its columns; unmatched source rows are
\* inserted. Delta refuses the merge when several source rows match one
\* target row.
MergeUpsert(t, src, cols) ==
    LET ambiguous == \E r \in DOMAIN t : Matches(src, cols, r) > 1
        upd(r) == IF \E s \in DOMAIN src : SqlEq(cols, s, r)
                  THEN CHOOSE s \in DOMAIN src : SqlEq(cols, s, r)
                  ELSE r
        inserted == BagFilter(src,
                        LAMBDA s : ~\E r \in DOMAIN t : SqlEq(cols, s, r))
    IN IF ambiguous
       THEN [ok |-> FALSE, rows |-> t]
       ELSE [ok |-> TRUE, rows |-> BagImage(t, upd) (+) inserted]

----------------------------------------------------------------------------
(* scd and bootstrap_scd2 *)

\* keys, normalised to a list of column names.
KeyCols == {"id"}

\* Python truthiness of an optional string argument.
Truthy(arg) == arg \notin {"None", ""}

\* Window.partitionBy(keys).orderBy(effective_ts)
AscTs(b) == [r \in DOMAIN b |-> r.id * (MaxTs + 1) + r.ts]

\* The type-1 window with .desc() left out.
DescTsLeftOut(b) == [r \in DOMAIN b |-> r.id * (MaxTs + 1) + r.ts]

\* Window.partitionBy(keys).orderBy(F.col(effective_ts).desc())
DescTs(b) == [r \in DOMAIN b |-> r.id * (MaxTs + 1) + (MaxTs - r.ts)]

\* withColumn(end_ts, F.lead(effective_ts).over(window)) along ordering s.
WithLead(s) ==
    SeqToBag([i \in DOMAIN s |-> [s[i] EXCEPT !.end = Lead(KeyCols, s, i)]])

\* The open rows of the table whose key occurs in source.
UpdatedRows(t, source) ==
    BagFilter(t, LAMBDA r :
        /\ \E s \in DOMAIN source : SqlEq(KeyCols, s, r)
        /\ r.end = Null)

\* combined_rows with the union with source left out.
CombinedRowsNoUnion(t, source) == UpdatedRows(t, source)

\* updated_rows.unionByName(source, allowMissingColumns=True)
CombinedRows(t, source) == UpdatedRows(t, source) (+) source

\* The payloads _scd2 can compute (one per way Spark may order ties).
Scd2Payloads(t, source) ==
    LET combined == CombinedRows(t, source)
    IN {WithLead(s) : s \in WindowOrders(combined, AscTs(combined))}

\* The payloads _scd1 can compute: per key the row ranked first by
\* descending effective_ts.
Scd1Payloads(source) ==
    {RowNumberOne(KeyCols, s) : s \in WindowOrders(source, DescTs(source))}

\* An outcome of a call: the table it leaves, what it returned or raised,
\* and the TableStore calls it made.
Outcome(rows, res, calls) == [rows |-> rows, result |-> res, log |-> calls]

Merged(m) ==
    Outcome(m.rows, IF m.ok THEN "ok" ELSE "MergeError",
            <<"read_snapshot", "merge">>)

\* _scd2 without its check of end_ts.
Scd2Unchecked(t, source, end_ts) ==
    {Merged(MergeUpsert(t, payload, KeyCols \cup {"ts"}))
        : payload \in Scd2Payloads(t, source)}

Scd2(t, source, end_ts) ==
    IF ~Truthy(end_ts)
    THEN {Outcome(t, "ValueError", << >>)}
    ELSE {Merged(MergeUpsert(t, payload, KeyCols \cup {"ts"}))
            : payload \in Scd2Payloads(t, source)}

Scd1(t, source) ==
    {Merged(MergeUpsert(t, payload, KeyCols))
        : payload \in Scd1Payloads(source)}

ScdOutcomes(t, source, end_ts, scd_type) ==
    IF scd_type = 2 THEN Scd2(t, source, end_ts)
    ELSE IF scd_type = 1 THEN Scd1(t, source)
    ELSE {Outcome(t, "ValueError", << >>)}

\* bootstrap_scd2 checking its arguments after the table is replaced.
BootstrapChecksLate(t, source, path, table_identifier) ==
    IF ~Truthy(path) /\ ~Truthy(table_identifier)
    THEN {Outcome(EmptyBag, "ValueError", <<"create_table">>)}
    ELSE {Outcome(WithLead(s), "ok", <<"create_table", "append">>)
            : s \in WindowOrders(source, AscTs(source))}

\* bootstrap_scd2: createOrReplace the table, then append the payload.
BootstrapOutcomes(t, source, path, table_identifier) ==
    IF ~Truthy(path) /\ ~Truthy(table_identifier)
    THEN {Outcome(t, "ValueError", << >>)}
    ELSE {Outcome(WithLead(s), "ok", <<"create_table", "append">>)
            : s \in WindowOrders(source, AscTs(source))}

----------------------------------------------------------------------------
(* deduplicate *)

\* Upper bound (exclusive) of a tie-breaking column's values.
Base == MaxTs + MaxVal + 1

\* The sort key with .desc() left out.
RECURSIVE AscKey(_, _)
AscKey(r, cols) ==
    IF cols = << >> THEN 0
    ELSE r[Head(cols)] * Base ^ (Len(cols) - 1) + AscKey(r, Tail(cols))

\* Sort key of [F.col(c).desc() for c in cols]: earlier columns weigh more.
RECURSIVE DescKey(_, _)
DescKey(r, cols) ==
    IF cols = << >> THEN 0
    ELSE (Base - 1 - r[Head(cols)]) * Base ^ (Len(cols) - 1)
            + DescKey(r, Tail(cols))

\* Window.partitionBy(keys).orderBy(tiebreaking_desc); with no tie-breaking
\* column the rows of a partition come in any order.
DescBy(b, cols) ==
    [r \in DOMAIN b |-> r.id * Base ^ Len(cols) + DescKey(r, cols)]

\* Rows whose key occurs more than once: count('*') over the partition > 1.
Dupes(t) ==
    BagFilter(t, LAMBDA r :
        Card(BagFilter(t, LAMBDA x : SamePart(KeyCols, x, r))) > 1)

\* Staging that writes no row.
SurvivorsDropped(t, tiebreaking_columns) == {EmptyBag}

\* Staging with the row_number / drop_duplicates step left out.
SurvivorsUnranked(t, tiebreaking_columns) == {Dupes(t)}

\* The survivors deduplicate can stage: per duplicated key the row ranked
\* first by the tie-breaking columns, or any one row (drop_duplicates(keys))
\* when there are none.
Survivors(t, tiebreaking_columns) ==
    LET dupes == Dupes(t)
    IN {RowNumberOne(KeyCols, s)
          : s \in WindowOrders(dupes, DescBy(dupes, tiebreaking_columns))}

\* dupes.select(keys).distinct()
DupeKeys(t) == {[id |-> r.id] : r \in DOMAIN Dupes(t)}

\* merge(...).whenMatchedDelete().execute(): target rows matched by a source
\* row are deleted.
MergeDelete(t, src, cols) ==
    BagFilter(t, LAMBDA r : ~\E s \in src : SqlEq(cols, s, r))

----------------------------------------------------------------------------
(* deduplicate_dataframe (hydro.spark) *)

AllCols == {"id", "ts", "end", "val"}

\* deduplicate_dataframe keyed on id even when keys are omitted.
DeduplicatedById(df, keys, tiebreaking_columns) ==
    LET parts == {{x \in DOMAIN df : SamePart(KeyCols, x, r)} : r \in DOMAIN df}
        picks == {f \in [parts -> DOMAIN df] : \A q \in parts : f[q] \in q}
    IN {SetToBag({f[q] : q \in parts}) : f \in picks}

\* The DataFrames deduplicate_dataframe can return: one row per value of
\* the key columns, the one ranked first by the tie-breaking columns (any
\* one when there are none). With keys omitted (the empty set here) the
\* whole row is the key.
DeduplicatedFrames(df, keys, tiebreaking_columns) ==
    LET cols == IF keys = {} THEN AllCols ELSE keys
        parts == {{x \in DOMAIN df : SamePart(cols, x, r)} : r \in DOMAIN df}
        best(part) ==
            {r \in part :
                \A x \in part :
                    DescKey(r, tiebreaking_columns)
                        <= DescKey(x, tiebreaking_columns)}
        picks == {f \in [parts -> DOMAIN df] : \A q \in parts : f[q] \in best(q)}
    IN {SetToBag({f[q] : q \in parts}) : f \in picks}

----------------------------------------------------------------------------
(* detail_enhanced *)

\* SQL NULL / Python None where 0 is a value.
None == -1

\* A file of the snapshot: whether its stats column is set, and the
\* numRecords its stats give (None when there is none to read).
FileKinds ==
    {[stats |-> FALSE, numRecords |-> None]}
        \cup {[stats |-> TRUE, numRecords |-> n] : n \in {None} \cup 0..MaxRecs}

RECURSIVE SumRecords(_, _)
SumRecords(b, S) ==
    IF S = {} THEN 0
    ELSE LET f == CHOOSE x \in S : TRUE
         IN b[f] * f.numRecords + SumRecords(b, S \ {f})

\* F.sum over get_json_object(stats, '$.numRecords'): NULLs are skipped,
\* and the sum of no value is NULL.
SqlSum(files) ==
    LET counted == {f \in DOMAIN files : f.numRecords # None}
    IN IF counted = {} THEN None ELSE SumRecords(files, counted)

\* F.avg(when(stats is not NULL, 1).otherwise(0)) as the fraction num/den;
\* the average of no row is NULL.
SqlAvgStats(files) ==
    [null |-> DOMAIN files = {},
     num |-> SumCounts(files, {f \in DOMAIN files : f.stats}),
     den |-> Card(files)]

\* _humanize_number (hydro/__init__.py): the number in human format; what
\* it does with None is not specified: it raises or formats it.
HumanizeOutcomes(n) ==
    IF n = None
    THEN {[raised |-> TRUE, text |-> None], [raised |-> FALSE, text |-> None]}
    ELSE {[raised |-> FALSE, text |-> n]}

\* The results detail_enhanced can have on a snapshot with these files.
DetailEnhancedOutcomes(files) ==
    LET avg == SqlAvgStats(files)
        done(h) ==
            IF h.raised \/ avg.null     \* None * 100 raises
            THEN [result |-> "TypeError", details |-> EmptyBag]
            ELSE [result |-> "ok",
                  details |-> [numRecords |-> h.text,
                               stats_percentage |->
                                   [num |-> avg.num * 100, den |-> avg.den]]]
    IN {done(h) : h \in HumanizeOutcomes(SqlSum(files))}

FileSets == BagsUpTo(FileKinds, MaxFiles)

----------------------------------------------------------------------------
(* State *)

Batches == BagsUpTo(SrcRows, MaxBatch)

\* Batches of versions: keys are not NULL and a key has one row per
\* effective_ts.
VersionBatches ==
    {b \in Batches :
        \A r \in DOMAIN b :
            /\ r.id # Null
            /\ b[r] = 1
            /\ \A x \in DOMAIN b : (x.id = r.id /\ x.ts = r.ts) => x = r}

\* Any table of at most MaxRows rows.
Tables == BagsUpTo(SrcRows, MaxRows)

\* Rows as F.lead leaves them: open, or closed at the effective_ts of a
\* later (or tying) row.
HistoryRows ==
    {r \in {Row(i, t, e, v) : i \in KeyVals, t \in Tss, e \in Ends,
                                v \in Vals} :
        r.end = Null \/ r.end >= r.ts}

\* Any table of at most MaxRows rows, some of them closed by earlier
\* type-2 merges.
Histories == BagsUpTo(HistoryRows, MaxRows)

OptArgs == {"None", "", "given"}     \* an optional string argument
ScdTypes == {1, 2, 3}
TieLists == {<< >>, <<"ts">>, <<"val">>, <<"ts", "val">>, <<"val", "ts">>}

NoStage == [exists |-> FALSE, rows |-> EmptyBag]

NoOp == [name |-> "none", source |-> EmptyBag, keys |-> KeyCols,
         end_ts |-> "None", scd_type |-> 0, path |-> "None",
         table_identifier |-> "None", temp_path |-> 0,
         tiebreaking_columns |-> << >>, files |-> EmptyBag]

Snapshot(t, v) == [rows |-> t, version |-> v]

InitWith(t, made) ==
    /\ table = t
    /\ exists = made
    /\ version = 0
    /\ staging = [p \in TempPaths |-> NoStage]
    /\ pc = "idle"
    /\ op = NoOp
    /\ result = "none"
    /\ log = << >>
    /\ pre = t
    /\ once = t
    /\ runs = 0
    /\ snap = Snapshot(EmptyBag, 0)
    /\ attempts = 0
    /\ conflicts = 0
    /\ contended = EmptyBag
    /\ returned = EmptyBag
    /\ appended = EmptyBag
    /\ nops = 0

\* No table yet: bootstrap_scd2 creates it.
Init == InitWith(EmptyBag, FALSE)

\* An existing table with any rows.
InitAnyTable == \E t \in Tables : InitWith(t, TRUE)

\* An existing table with any rows, open or closed.
InitAnyHistory == \E t \in Histories : InitWith(t, TRUE)

----------------------------------------------------------------------------
(* Calls that run to completion without another writer *)

BootstrapScd2(source, path, table_identifier) ==
    /\ pc = "idle"
    /\ \E o \in BootstrapOutcomes(table, source, path, table_identifier) :
        /\ table' = o.rows
        /\ result' = o.result
        /\ log' = o.log
        /\ exists' = (exists \/ o.result = "ok")
        /\ version' = version + Len(o.log)
    /\ op' = [NoOp EXCEPT !.name = "bootstrap_scd2", !.source = source,
                          !.end_ts = "given", !.path = path,
                          !.table_identifier = table_identifier]
    /\ pre' = table
    /\ runs' = 0
    /\ nops' = nops + 1
    /\ UNCHANGED <<staging, pc, once, snap, attempts, conflicts, contended,
                   returned, appended>>

Scd(source, end_ts, scd_type) ==
    /\ pc = "idle"
    /\ exists
    /\ LET call == [NoOp EXCEPT !.name = "scd", !.source = source,
                                !.end_ts = end_ts, !.scd_type = scd_type]
       IN /\ op' = call
          /\ runs' = IF op = call THEN runs + 1 ELSE 1
          /\ \E o \in ScdOutcomes(table, source, end_ts, scd_type) :
                /\ table' = o.rows
                /\ result' = o.result
                /\ log' = o.log
                /\ attempts' = IF o.log = << >> THEN 0 ELSE 1
                /\ version' = IF o.result = "ok" THEN version + 1 ELSE version
                /\ once' = IF op = call THEN once ELSE o.rows
    /\ pre' = table
    /\ conflicts' = 0
    /\ nops' = nops + 1
    /\ UNCHANGED <<exists, staging, pc, snap, contended, returned, appended>>

\* The same call made again.
ScdAgain ==
    /\ op.name = "scd"
    /\ Scd(op.source, op.end_ts, op.scd_type)

----------------------------------------------------------------------------
(* scd against a table another writer commits to: execute() reads the
   snapshot, and the commit is refused when the table has moved on *)

ScdBegin(source, end_ts, scd_type) ==
    /\ pc = "idle"
    /\ exists
    /\ op' = [NoOp EXCEPT !.name = "scd", !.source = source,
                          !.end_ts = end_ts, !.scd_type = scd_type]
    /\ pre' = table
    /\ runs' = 1
    /\ conflicts' = 0
    /\ nops' = nops + 1
    /\ IF \E o \in ScdOutcomes(table, source, end_ts, scd_type) :
             o.result = "ValueError"
       THEN /\ result' = "ValueError"
            /\ log' = << >>
            /\ attempts' = 0
            /\ UNCHANGED <<pc, snap>>
       ELSE /\ result' = "none"
            /\ log' = <<"read_snapshot">>
            /\ attempts' = 1
            /\ snap' = Snapshot(table, version)
            /\ pc' = "merging"
    /\ UNCHANGED <<table, exists, version, staging, once, contended, returned,
                   appended>>

\* Another writer appends a row while the merge is in progress.
Writer ==
    /\ pc = "merging"
    /\ version = snap.version
    /\ \E r \in SrcRows : table' = table (+) SetToBag({r})
    /\ version' = version + 1
    /\ contended' = table'
    /\ UNCHANGED <<exists, staging, pc, op, result, log, pre, once, runs, snap,
                   attempts, conflicts, returned, nops, appended>>

\* The commit of the merge. A refused commit raises out of execute(), and
\* scd with it: the call makes no second attempt.
ScdCommit ==
    /\ pc = "merging"
    /\ pc' = "idle"
    /\ IF version # snap.version
       THEN /\ result' = "ConflictError"
            /\ conflicts' = conflicts + 1
            /\ log' = log \o <<"merge">>
            /\ UNCHANGED <<table, version, once>>
       ELSE /\ \E o \in ScdOutcomes(snap.rows, op.source, op.end_ts,
                                    op.scd_type) :
                  /\ table' = o.rows
                  /\ result' = o.result
                  /\ version' = IF o.result = "ok" THEN version + 1
                                ELSE version
                  /\ once' = o.rows
            /\ log' = log \o <<"merge">>
            /\ UNCHANGED conflicts
    /\ UNCHANGED <<exists, staging, op, pre, runs, snap, attempts, contended,
                   returned, nops, appended>>

----------------------------------------------------------------------------
(* deduplicate: stage the survivors, delete the duplicated keys, append the
   staged rows; each step is one or more TableStore calls *)

DedupStage(temp_path, tiebreaking_columns) ==
    /\ pc = "idle"
    /\ exists
    /\ op' = [NoOp EXCEPT !.name = "deduplicate", !.temp_path = temp_path,
                          !.tiebreaking_columns = tiebreaking_columns]
    /\ pre' = table
    /\ nops' = nops + 1
    /\ runs' = 0
    /\ IF staging[temp_path].exists
       THEN \* save(temp_path) refuses a location that holds a table
            /\ result' = "AnalysisException"
            /\ log' = <<"detail">>
            /\ UNCHANGED <<staging, pc>>
       ELSE /\ \E kept \in Survivors(table, tiebreaking_columns) :
                  staging' = [staging EXCEPT
                                 ![temp_path] = [exists |-> TRUE, rows |-> kept]]
            /\ result' = "none"
            /\ log' = <<"detail", "read_snapshot", "write_new_location">>
            /\ pc' = "staged"
    /\ appended' = EmptyBag
    /\ UNCHANGED <<table, exists, version, once, snap, attempts, conflicts,
                   contended, returned>>

\* The delete merge: dupes is a lazy DataFrame over the table, so the keys
\* to delete are those duplicated in the table as execute() finds it.
DedupDelete ==
    /\ pc = "staged"
    /\ table' = MergeDelete(table, DupeKeys(table), KeyCols)
    /\ version' = version + 1
    /\ log' = log \o <<"read_snapshot", "merge">>
    /\ pc' = "deleted"
    /\ UNCHANGED <<exists, staging, op, result, pre, once, runs, snap,
                   attempts, conflicts, contended, returned, nops, appended>>

DedupAppend ==
    /\ pc = "deleted"
    /\ table' = table (+) staging[op.temp_path].rows
    /\ version' = version + 1
    /\ log' = log \o <<"read_location", "append">>
    /\ result' = "ok"
    /\ pc' = "idle"
    /\ UNCHANGED <<exists, staging, op, pre, once, runs, snap, attempts,
                   conflicts, contended, returned, nops, appended>>

\* Another writer appends a row to the target between two steps of
\* deduplicate, which holds no lock across them.
DedupWriter ==
    /\ pc \in {"staged", "deleted"}
    /\ Card(appended) < MaxAppends
    /\ \E r \in SrcRows :
          /\ table' = table (+) SetToBag({r})
          /\ appended' = appended (+) SetToBag({r})
    /\ version' = version + 1
    /\ UNCHANGED <<exists, staging, pc, op, result, log, pre, once, runs, snap,
                   attempts, conflicts, contended, returned, nops>>

\* detail_enhanced on a table whose snapshot holds these files.
DetailEnhanced(files) ==
    /\ pc = "idle"
    /\ exists
    /\ op' = [NoOp EXCEPT !.name = "detail_enhanced", !.files = files]
    /\ \E o \in DetailEnhancedOutcomes(files) :
          /\ result' = o.result
          /\ returned' = o.details
    /\ log' = <<"detail", "read_snapshot">>
    /\ pre' = table
    /\ runs' = 0
    /\ nops' = nops + 1
    /\ UNCHANGED <<table, exists, version, staging, pc, once, snap, attempts,
                   conflicts, contended, appended>>

DeduplicateDataframe(keys, tiebreaking_columns) ==
    /\ pc = "idle"
    /\ op' = [NoOp EXCEPT !.name = "deduplicate_dataframe", !.keys = keys,
                          !.tiebreaking_columns = tiebreaking_columns]
    /\ pre' = table
    /\ returned' \in DeduplicatedFrames(table, keys, tiebreaking_columns)
    /\ result' = "ok"
    /\ log' = << >>
    /\ runs' = 0
    /\ nops' = nops + 1
    /\ UNCHANGED <<table, exists, version, staging, pc, once, snap, attempts,
                   conflicts, contended, appended>>

----------------------------------------------------------------------------
(* Specifications *)

\* One call of scd or bootstrap_scd2, with any arguments, in any state.
Next ==
    \/ /\ nops = 0
       /\ \E source \in VersionBatches, path \in OptArgs, ident \in OptArgs :
             BootstrapScd2(source, path, ident)
    \/ /\ nops = 0
       /\ \E source \in VersionBatches, end_ts \in OptArgs,
                scd_type \in ScdTypes :
             Scd(source, end_ts, scd_type)

Spec == (Init \/ InitAnyTable) /\ [][Next]_vars

\* bootstrap_scd2, then a sequence of type-2 merges.
NextScd2 ==
    \/ /\ ~exists
       /\ \E source \in VersionBatches :
             BootstrapScd2(source, "given", "None")
    \/ /\ exists
       /\ nops <= MaxMerges
       /\ \E source \in VersionBatches : Scd(source, "given", 2)

SpecScd2 == Init /\ [][NextScd2]_vars

\* deduplicate on any table.
NextDedup ==
    \/ /\ nops = 0
       /\ \E temp_path \in TempPaths, tie \in TieLists :
             DedupStage(temp_path, tie)
    \/ DedupDelete
    \/ DedupAppend

SpecDedup == InitAnyTable /\ [][NextDedup]_vars

\* deduplicate called up to MaxDedups times in a row on any table.
NextDedupCalls ==
    \/ /\ nops < MaxDedups
       /\ \E temp_path \in TempPaths, tie \in TieLists :
             DedupStage(temp_path, tie)
    \/ DedupDelete
    \/ DedupAppend

SpecDedupCalls == InitAnyTable /\ [][NextDedupCalls]_vars

\* deduplicate on any table another writer appends to.
NextDedupWriter ==
    \/ /\ nops = 0
       /\ \E temp_path \in TempPaths, tie \in TieLists :
             DedupStage(temp_path, tie)
    \/ DedupWriter
    \/ DedupDelete
    \/ DedupAppend

SpecDedupWriter == InitAnyTable /\ [][NextDedupWriter]_vars

\* One merge of either type of any batch into any table.
NextScdAny ==
    /\ nops = 0
    /\ \E source \in Batches, scd_type \in {1, 2} :
          Scd(source, "given", scd_type)

SpecScdAny == InitAnyHistory /\ [][NextScdAny]_vars

\* detail_enhanced on a table with any files.
NextDetail ==
    /\ nops = 0
    /\ \E files \in FileSets : DetailEnhanced(files)

SpecDetail == InitAnyTable /\ [][NextDetail]_vars

\* A type-1 merge of any batch into any table, and the same merge again.
NextScd1 ==
    \/ /\ nops = 0
       /\ \E source \in Batches : Scd(source, "None", 1)
    \/ /\ nops = 1
       /\ ScdAgain

SpecScd1 == InitAnyTable /\ [][NextScd1]_vars

\* One merge of either type against a table another writer commits to.
NextConflict ==
    \/ /\ nops = 0
       /\ \E source \in VersionBatches, scd_type \in {1, 2} :
             ScdBegin(source, "given", scd_type)
    \/ Writer
    \/ ScdCommit

SpecConflict == InitAnyTable /\ [][NextConflict]_vars

\* deduplicate_dataframe on any DataFrame.
NextDedupDf ==
    /\ nops = 0
    /\ \E keys \in {{}, KeyCols}, tie \in TieLists :
          DeduplicateDataframe(keys, tie)

SpecDedupDf == InitAnyTable /\ [][NextDedupDf]_vars

\* bootstrap_scd2 of any dataset over any table or none, or a type-2 merge
\* of any dataset into any table.
NextBoot ==
    \/ /\ nops = 0
       /\ \E source \in Batches : BootstrapScd2(source, "given", "None")
    \/ /\ nops = 0
       /\ \E source \in Batches : Scd(source, "given", 2)

SpecBoot == (Init \/ InitAnyTable) /\ [][NextBoot]_vars

----------------------------------------------------------------------------
(* Validity intervals *)

RowsOfKey(t, k) == BagFilter(t, LAMBDA r : r.id = k)

\* The rows tile along ordering s: each row ends where the next begins and
\* the last one is open.
Tiles(s) ==
    \A i \in DOMAIN s :
        s[i].end = IF i < Len(s) THEN s[i + 1].ts ELSE Null

\* Invariant I1 for one key of table t.
TiledKey(t, k) ==
    LET rows == RowsOfKey(t, k)
    IN DOMAIN rows # {} =>
        /\ Card(BagFilter(rows, LAMBDA r : r.end = Null)) = 1
        /\ \E s \in WindowOrders(rows, AscTs(rows)) : Tiles(s)

Tiled(t) == \A k \in Ids : TiledKey(t, k)

\* C1: in every table produced by bootstrap_scd2 and then any sequence of
\* type-2 merges, the rows of every key, ordered by effective_ts, satisfy
\* end_ts[i] = effective_ts[i+1], and exactly one row of the key is open.
C1_IntervalTiling == Tiled(table)

\* The keys for which the last call brought a row earlier than the open
\* row the key had.
OutOfOrderKeys ==
    {k \in Ids :
        \E s \in DOMAIN op.source, r \in DOMAIN pre :
            s.id = k /\ r.id = k /\ r.end = Null /\ s.ts < r.ts}

\* C2: a type-2 merge whose incoming row is earlier than the key's open row
\* (also between two closed rows) recomputes the boundaries of the whole
\* key: a key that tiled before the merge tiles after it.
C2_OutOfOrderRetiled ==
    (op.name = "scd" /\ op.scd_type = 2 /\ result = "ok") =>
        \A k \in OutOfOrderKeys : TiledKey(pre, k) => TiledKey(table, k)

----------------------------------------------------------------------------
(* deduplicate *)

DedupDone == op.name = "deduplicate" /\ pc = "idle" /\ result = "ok"

RECURSIVE LexGeq(_, _, _)
LexGeq(r, x, cols) ==
    \/ cols = << >>
    \/ r[Head(cols)] > x[Head(cols)]
    \/ r[Head(cols)] = x[Head(cols)] /\ LexGeq(r, x, Tail(cols))

----------------------------------------------------------------------------
(* deduplicate_dataframe *)

----------------------------------------------------------------------------
(* Type-1 merges *)

Scd1Called == op.name = "scd" /\ op.scd_type = 1

\* The rows of key k in batch b that carry the key's greatest effective_ts.
LatestOfKey(b, k) ==
    {r \in DOMAIN b : r.id = k /\ \A x \in DOMAIN b : x.id = k => x.ts <= r.ts}

\* C6 as stated: the same batch applied twice by a type-1 merge leaves the
\* table that applying it once leaves, for any table and any batch.
C6_Scd1Idempotent == (Scd1Called /\ runs = 2) => table = once

\* No row of the batch has a NULL key, and no two different rows of a key
\* tie on its greatest effective_ts.
Decided(b) ==
    /\ \A r \in DOMAIN b : r.id # Null
    /\ \A k \in Ids : Cardinality(LatestOfKey(b, k)) <= 1

\* C6 amended: the same batch applied twice by a type-1 merge leaves the
\* table that applying it once leaves, for any table and any batch whose
\* keys are not NULL and in which no two different rows of a key tie on
\* the key's greatest effective_ts.
C6_Scd1IdempotentDecided ==
    (Scd1Called /\ runs = 2 /\ Decided(op.source)) => table = once

\* A decided batch of two versions of a key applied twice to a table that
\* also holds a row of another key.
C6_Witness ==
    /\ Scd1Called
    /\ runs = 2
    /\ Decided(op.source)
    /\ \E r, x \in DOMAIN op.source : r.id = x.id /\ r.ts < x.ts
    /\ \E r \in DOMAIN table : \A x \in DOMAIN op.source : x.id # r.id

AtMostOnePerKey(t) == \A k \in Ids : Card(RowsOfKey(t, k)) <= 1

----------------------------------------------------------------------------
(* Conflicts *)

\* A merge of the call's batch into the refreshed snapshot can succeed.
RetryWouldSucceed ==
    \E o \in ScdOutcomes(contended, op.source, op.end_ts, op.scd_type) :
        o.result = "ok"

\* C8: when the merge issued by scd is refused once because of a concurrent
\* commit and would succeed on a second attempt, scd re-reads the snapshot,
\* recomputes the merge and retries exactly once, and the table ends as an
\* uncontended run on the refreshed snapshot leaves it.
C8_ConflictRetried ==
    (op.name = "scd" /\ pc = "idle" /\ conflicts = 1 /\ RetryWouldSucceed) =>
        /\ attempts = 2
        /\ result = "ok"
        /\ table \in {o.rows : o \in ScdOutcomes(contended, op.source,
                                                 op.end_ts, op.scd_type)}

----------------------------------------------------------------------------
(* Configuration errors *)

\* scd was called with type 2 and no end_ts, or with a type other than 1, 2.
ScdMisconfigured ==
    /\ op.name = "scd"
    /\ \/ op.scd_type = 2 /\ op.end_ts \in {"None", ""}
       \/ op.scd_type \notin {1, 2}

\* C9: scd called with type 2 and no end_ts, or with a scd_type that is
\* neither 1 nor 2, raises before any TableStore call, and the table is
\* unchanged.
C9_ScdFailsFast ==
    ScdMisconfigured =>
        /\ result = "ValueError"
        /\ log = << >>
        /\ table = pre

\* A type-2 call without end_ts was refused on a table that holds rows.
C9_Witness ==
    /\ ScdMisconfigured
    /\ op.scd_type = 2
    /\ op.end_ts = "None"
    /\ DOMAIN op.source # {}
    /\ DOMAIN table # {}
    /\ result = "ValueError"

\* C10: bootstrap_scd2 called with neither a path nor a table identifier
\* raises, and no table is created, replaced or written.
C10_BootstrapFailsFast ==
    [][(/\ nops' = nops + 1
        /\ op'.name = "bootstrap_scd2"
        /\ op'.path \in {"None", ""}
        /\ op'.table_identifier \in {"None", ""})
       => (/\ result' = "ValueError"
           /\ log' = << >>
           /\ table' = table
           /\ exists' = exists
           /\ version' = version)]_vars

\* The call was refused on an existing table that holds rows.
C10_Witness ==
    /\ op.name = "bootstrap_scd2"
    /\ op.path = "None"
    /\ op.table_identifier = "None"
    /\ result = "ValueError"
    /\ exists
    /\ DOMAIN table # {}
    /\ DOMAIN op.source # {}

----------------------------------------------------------------------------
(* bootstrap_scd2 and the type-2 merge *)

\* The tables a type-2 merge of source into an empty table can leave.
MergedIntoEmpty(source) ==
    {o.rows : o \in {x \in ScdOutcomes(EmptyBag, source, "given", 2)
                          : x.result = "ok"}}

\* The tables bootstrap_scd2 of source can leave.
Bootstrapped(source) ==
    {o.rows : o \in BootstrapOutcomes(EmptyBag, source, "given", "None")}

\* C11: for any source dataset, the rows of the table bootstrap_scd2
\* produces are rows a type-2 merge of the same source into an empty table
\* produces, and the other way round; the merge into the empty table
\* succeeds.
C11_BootstrapIsMergeIntoEmpty ==
    /\ (op.name = "bootstrap_scd2" /\ result = "ok") =>
            table \in MergedIntoEmpty(op.source)
    /\ (op.name = "scd" /\ op.scd_type = 2 /\ pre = EmptyBag) =>
            /\ result = "ok"
            /\ table \in Bootstrapped(op.source)

\* A type-2 merge into an empty table of two versions of a key: the
\* earlier one is closed.
C11_Witness ==
    /\ op.name = "scd"
    /\ op.scd_type = 2
    /\ pre = EmptyBag
    /\ result = "ok"
    /\ \E r, x \in DOMAIN table : r.id = x.id /\ r.end = x.ts /\ x.end = Null

----------------------------------------------------------------------------
(* The steps of deduplicate *)

\* Every occurrence of call b in s comes after an occurrence of call a.
Before(a, b, s) ==
    \A j \in DOMAIN s : s[j] = b => \E i \in 1..(j - 1) : s[i] = a

\* Key value k has a row in the target or in the staging location of the
\* call.
Kept(k) ==
    \/ \E r \in DOMAIN table : r.id = k
    \/ /\ op.temp_path \in TempPaths
       /\ \E r \in DOMAIN staging[op.temp_path].rows : r.id = k

\* C12: deduplicate stages, then deletes, then appends, and at every point
\* of that sequence every key value (NULL included) that had a row in the
\* target before the call has a row in the target or in the staging
\* location.
C12_StageBeforeDelete ==
    op.name = "deduplicate" =>
        /\ Before("write_new_location", "merge", log)
        /\ Before("merge", "append", log)
        /\ \A k \in KeyVals : (\E r \in DOMAIN pre : r.id = k) => Kept(k)

\* Stopped between the delete and the append: a key has no row left in the
\* target, only in the staging location.
C12_Witness ==
    /\ op.name = "deduplicate"
    /\ pc = "deleted"
    /\ \E k \in Ids :
          /\ \E r \in DOMAIN pre : r.id = k
          /\ ~\E r \in DOMAIN table : r.id = k
          /\ \E r \in DOMAIN staging[op.temp_path].rows : r.id = k

\* C13: when another writer appends rows between the staging step of
\* deduplicate and its delete or append step, every key value that had a
\* row in the target before the call, or was appended during it, has a row
\* in the target once deduplicate completes.
C13_DedupKeepsKeysUnderWriter ==
    DedupDone =>
        \A k \in KeyVals :
            (\E r \in DOMAIN pre \cup DOMAIN appended : r.id = k) =>
                \E r \in DOMAIN table : r.id = k

\* What deduplicate is to do to the rows of key value k: a key that
\* occurred more than once keeps one of its rows, any other key keeps its
\* rows as they were.
FrameOfKey(k) ==
    LET before == RowsOfKey(pre, k)
        after == RowsOfKey(table, k)
    IN IF Card(before) > 1
       THEN \E r \in DOMAIN before : after = SetToBag({r})
       ELSE after = before

\* C14: deduplicate deletes exactly the rows whose key occurs more than
\* once and appends back one survivor per such key; rows whose key occurs
\* once are unchanged, and a table without duplicate keys is unchanged.
\* Rows whose key is NULL may count as sharing a key or as having none:
\* they end as one survivor or as they were.
C14_DedupFrame ==
    DedupDone =>
        /\ \A k \in Ids : FrameOfKey(k)
        /\ \/ FrameOfKey(Null)
           \/ RowsOfKey(table, Null) = RowsOfKey(pre, Null)

----------------------------------------------------------------------------
(* What a merge leaves alone *)

\* The (key, effective_ts) pairs of the rows of t, with multiplicity.
Versions(t) == BagImage(t, LAMBDA r : [id |-> r.id, ts |-> r.ts])

\* The key of r occurs in the batch.
InBatch(r, b) == \E s \in DOMAIN b : SqlEq(KeyCols, s, r)

\* The incoming rows whose key has rows in t, none of them with the row's
\* effective_ts.
NewVersions(t, b) ==
    {s \in DOMAIN b :
        /\ \E r \in DOMAIN t : SqlEq(KeyCols, s, r)
        /\ ~\E r \in DOMAIN t : SqlEq(KeyCols \cup {"ts"}, s, r)}

\* C15: a merge of either type removes no row (every key value keeps at
\* least as many rows as it had) and leaves unchanged every row whose key
\* does not occur in incoming (the rows of such a key are what they were,
\* and a row whose key is NULL, which no incoming key equals, stays as it
\* is); a type-2 merge inserts an incoming row whose
\* key exists but whose effective_ts no row of the key has, and every
\* (key, effective_ts) the table held keeps its rows.
C15_ScdFrame ==
    op.name = "scd" =>
        /\ \A k \in KeyVals :
              Card(RowsOfKey(table, k)) >= Card(RowsOfKey(pre, k))
        /\ \A k \in Ids :
              (~\E s \in DOMAIN op.source : s.id = k) =>
                  RowsOfKey(table, k) = RowsOfKey(pre, k)
        /\ \A r \in DOMAIN pre :
              ~InBatch(r, op.source) =>
                  (r \in DOMAIN table /\ table[r] >= pre[r])
        /\ (op.scd_type = 2 /\ result = "ok") =>
              /\ Versions(pre) \sqsubseteq Versions(table)
              /\ \A s \in NewVersions(pre, op.source) :
                    \E r \in DOMAIN table :
                        r.id = s.id /\ r.ts = s.ts /\ r.val = s.val

\* A type-2 merge brought a version between a closed and the open row of
\* its key.
C15_Witness ==
    /\ op.name = "scd"
    /\ op.scd_type = 2
    /\ result = "ok"
    /\ \E s \in NewVersions(pre, op.source), r, x \in DOMAIN pre :
          /\ r.id = s.id /\ x.id = s.id /\ r.ts < s.ts /\ s.ts < x.ts
          /\ r.end = x.ts /\ x.end = Null

----------------------------------------------------------------------------
(* File statistics *)

\* The records reported by the files that carry statistics.
RecordsWithStats(files) ==
    SumRecords(files, {f \in DOMAIN files : f.stats /\ f.numRecords # None})

\* C16: for any set of files in the snapshot detail_enhanced completes,
\* its record count is the sum over the files that carry statistics only,
\* and it reports the fraction of files that carry statistics.
C16_MissingStatsTolerated ==
    op.name = "detail_enhanced" =>
        /\ result = "ok"
        /\ returned.numRecords = RecordsWithStats(op.files)
        /\ returned.stats_percentage.num * Card(op.files)
              = 100 * SumCounts(op.files, {f \in DOMAIN op.files : f.stats})
                    * returned.stats_percentage.den

====
